---------------------------- MODULE Spec2Model ----------------------------
(***************************************************************************)
(* Model of the real-time MIDI consumer of oscirhythm                      *)
(* (src/model/rt_midi_gfnn.py, src/web/client.py, src/model/gfnn.py).      *)
(*                                                                         *)
(* Three threads are modelled: the rtmidi callback thread (the producer,   *)
(* MidiProcessor._handle_message), the consumer thread                     *)
(* (GrFNNMidiConsumer.run) and the main thread (start / stop / join).      *)
(*                                                                         *)
(* Time is an integer clock `now` (time.time()).  The sampling period DT   *)
(* and the rim-shot window are expressed in clock ticks; the source's      *)
(* 1/160 s and 0.75 s are scaled down so that the clock stays small: the   *)
(* model only relies on DT > 1 tick (so that floor(elapsed/DT) rounds) and *)
(* on a window of a few ticks.                                             *)
(*                                                                         *)
(* The oscillator state z of a GrFNN is abstracted by the sequence of      *)
(* inputs that were stepped through it since its construction (forward is  *)
(* deterministic in the state and the input).                              *)
(*                                                                         *)
(* The numerical objects of gfnn.py (FrequencyDist, ZParams.tune_to_freq,  *)
(* the return of spont_amp and the seeding of a bank) are exercised on     *)
(* their own in GfnnSpec, through the variable gf.  Frequencies are kept   *)
(* as exact fractions; a tuned parameter is kept as its initial value      *)
(* followed by the in-place operations applied to it.  ExpirySpec runs the *)
(* polling loop from every count of the rim-shot accumulator, ClassifySpec *)
(* runs the classifier of the counts.                                      *)
(***************************************************************************)
EXTENDS Integers, Sequences, FiniteSets, TLC

\* ------------------------------------------------------------------ bounds
\* The clock runs from 1 to MaxTime.
MaxTime == 4
\* Number of device messages the callback delivers in one run.
MaxMsgs == 3
\* Largest rim-shot count handed to the classifier harness.
MaxCount == 6

\* --------------------------------------------------------------- constants
\* rt_midi_gfnn.py:29   DT = 1.0/FS, in clock ticks
DT == 2
\* rt_midi_gfnn.py:48   RIM_TRIGGER_WINDOW, in clock ticks
RIM_TRIGGER_WINDOW == 2
\* rt_midi_gfnn.py:32
MIDI_VEL_SCALE == 10
\* rt_midi_gfnn.py:42-45
TOM_NOTES == {48, 47}
TOM_RIM_NOTE == 15
PEDAL_NOTE == 46
VALID_NOTES == TOM_NOTES \cup {TOM_RIM_NOTE, PEDAL_NOTE}

\* Python's None for the two optional timestamps (_prev_time, _first_rimshot_time).
None == -1

\* client.py:12-20   GrFNNAction
NONE == ""
RESET == "RESET"
NEW_GRFNN == "NEW_GRFNN"
LOCK == "LOCK"
NEW_TONES == "NEW_TONES"

\* server.py:10-15   GrFNNKey (the two socket endpoints)
KEY_ACTION == "GrFNN_Action"
KEY_DATA == "GrFNN_Data"

VARIABLES
    now,          \* time.time()
    queue,        \* GrFNNMidiConsumer._receive_queue
    stopSignal,   \* GrFNNMidiConsumer._stop_signal
    prevTime,     \* GrFNNMidiConsumer._prev_time
    rimshots,     \* GrFNNMidiConsumer._rimshots
    firstRim,     \* GrFNNMidiConsumer._first_rimshot_time
    model,        \* GrFNNMidiConsumer._model
    nModels,      \* number of GrFNN instances constructed so far
    lock,         \* owner of GrFNNMidiConsumer._lock
    pc,           \* position of the consumer thread
    msg,          \* the message the consumer is processing (local of run)
    ts,           \* samples of the time series still to inject (local of _capture_message)
    mainPc,       \* position of the main thread
    sent,         \* everything emitted through GrFNNClient, in order
    nDelivered,   \* device messages the callback has been called with
    nAccepted,    \* device messages the callback has enqueued
    processed,    \* ids of the messages whose processing completed, in order
    batch,        \* history: bank, samples and previous onset of the TONE event being injected
    dequeuedAtStop, \* history: number of messages dequeued when stop() set the signal
    startTime,    \* history: the value run() gave _prev_time at start-up
    gf            \* the objects of gfnn.py exercised on their own (FrequencyDist, ZParams, spont_amp)

vars == <<now, queue, stopSignal, prevTime, rimshots, firstRim, model, nModels,
          lock, pc, msg, ts, mainPc, sent, nDelivered, nAccepted, processed, batch,
          dequeuedAtStop, startTime, gf>>

\* ------------------------------------------------------ pure functions

\* client.py:22-32   GrFNNAction.rim_action.  The source compares with `is`;
\* the counts are ints built by += 1 from 0, for which CPython's identity on
\* 1, 2, 3 coincides with equality.
\* Faulty variant of rim_action: the actions of 2 and 3 rim shots exchanged.
rim_action_swapped(n) ==
    IF n = 1 THEN LOCK
    ELSE IF n = 2 THEN RESET
    ELSE IF n = 3 THEN NEW_GRFNN
    ELSE NONE

rim_action(n) ==
    IF n = 1 THEN LOCK
    ELSE IF n = 2 THEN NEW_GRFNN
    ELSE IF n = 3 THEN RESET
    ELSE NONE

\* Python truthiness of an optional timestamp: None and 0 are both falsy.
Truthy(t) == t # None /\ t # 0

\* rt_midi_gfnn.py:147-148   int(np.floor(elapsed/DT)); \div floors, as np.floor.
\* Faulty variant of dts_since_last_note: rounds up instead of down.
dts_since_last_note_ceil(elapsed) == (elapsed + DT - 1) \div DT

dts_since_last_note(elapsed) == elapsed \div DT

\* rt_midi_gfnn.py:149-150   ts = np.zeros(n+1); ts[-1] = velocity*MIDI_VEL_SCALE
\* (defined for n >= 0 only: the caller crashes otherwise).
\* Faulty variant of time_series: one zero too many before the impulse.
time_series_extra_zero(n, velocity) ==
    [i \in 1..(n + 2) |-> IF i = n + 2 THEN velocity * MIDI_VEL_SCALE ELSE 0]

time_series(n, velocity) == [i \in 1..(n + 1) |-> IF i = n + 1 THEN velocity * MIDI_VEL_SCALE ELSE 0]

\* ------------------------------------------------------------------ gfnn.py

\* gfnn.py:57-60   FrequencyType (the two members of the enum)
LINEAR == "FrequencyType.LINEAR"
LOG == "FrequencyType.LOG"

\* The exceptions the functions of gfnn.py end with ("" : normal return).
NotImplementedError == "NotImplementedError"
TypeError == "TypeError"
ValueError == "ValueError"

\* A vector of numbers is kept exactly: element i is num[i]/den, or
\* 10^(num[i]/den) when exp10 holds (the result of np.logspace).
Vec(nums, d, e) == [num |-> nums, den |-> d, exp10 |-> e]
NoVec == Vec(<<>>, 1, FALSE)

\* np.linspace(start, stop, num), endpoint included (called at gfnn.py:76,78,81):
\* start + i*(stop - start)/(num - 1), the last sample set to stop when num > 1;
\* a single sample is start.
\* Faulty variant of linspace: the end point is left out (steps of delta/num).
linspace_open(start, stop, num) ==
    Vec([i \in 1..num |-> start * num + (i - 1) * (stop - start)], num, FALSE)

linspace(start, stop, num) ==
    LET div == num - 1 IN
    IF div > 0
    THEN Vec([i \in 1..num |-> IF i = num THEN stop * div
                               ELSE start * div + (i - 1) * (stop - start)], div, FALSE)
    ELSE Vec([i \in 1..num |-> start], 1, FALSE)

\* 10^e for a natural e.
RECURSIVE Pow10(_)
Pow10(e) == IF e = 0 THEN 1 ELSE 10 * Pow10(e - 1)

\* np.log10 (gfnn.py:78), exact on the powers of ten the model feeds it.
log10(x) == CHOOSE e \in 0..3 : Pow10(e) = x

\* gfnn.py:78   np.logspace(np.log10(minf), np.log10(maxf), dim): ten to the
\* power of the linspace of the exponents.
logspace(minf, maxf, dim) == [linspace(log10(minf), log10(maxf), dim) EXCEPT !.exp10 = TRUE]

NoFd == [min_freq |-> 0, max_freq |-> 0, dim |-> 0, ftype |-> "", dist |-> NoVec]

\* gfnn.py:62-81   FrequencyDist(min_freq, max_freq, dim, ftype) with its
\* __attrs_post_init__: the constructor returns the object with dist expanded,
\* or ends with NotImplementedError and no object.
FrequencyDist(min_freq, max_freq, dim, ftype) ==
    IF ftype = LINEAR
    THEN [exc |-> "", fd |-> [min_freq |-> min_freq, max_freq |-> max_freq, dim |-> dim,
                              ftype |-> ftype, dist |-> linspace(min_freq, max_freq, dim)]]
    ELSE IF ftype = LOG
    THEN [exc |-> "", fd |-> [min_freq |-> min_freq, max_freq |-> max_freq, dim |-> dim,
                              ftype |-> ftype, dist |-> logspace(min_freq, max_freq, dim)]]
    ELSE [exc |-> NotImplementedError, fd |-> NoFd]

\* One in-place operation on a parameter: op applied with operand x.
Op(o, x) == [op |-> o, x |-> x]
\* A scalar operand.
Scalar(c) == Vec(<<c>>, 1, FALSE)

\* gfnn.py:83-92   ZParams(alpha, delta1) with the other attributes at their
\* defaults.  alpha, beta1 and beta2 are kept as the initial value followed by
\* the in-place operations applied to it, in order; tunes counts the calls of
\* tune_to_freq that changed the object.
ZParams(alpha, delta1) ==
    [alpha |-> <<Op("=", Scalar(alpha))>>,
     beta1 |-> <<Op("=", Scalar(-1))>>,
     beta2 |-> <<Op("=", Scalar(-1))>>,
     delta1 |-> delta1, delta2 |-> 0, epsilon |-> 1,
     w |-> <<>>, tunes |-> 0]

\* gfnn.py:102-118   ZParams.tune_to_freq(freq_dist): the parameters after the
\* call and the exception it ended with.
\* Faulty variant of tune_to_freq: w is set before the frequency type is looked at.
tune_to_freq_w_first(zp, freq_dist) ==
    IF freq_dist.ftype = LINEAR
    THEN [exc |-> "",
          zp |-> [zp EXCEPT !.alpha = Append(@, Op("+= 1j*2*pi*", freq_dist.dist)),
                            !.beta1 = Append(@, Op("+= 1j*", Scalar(zp.delta1))),
                            !.beta2 = Append(@, Op("+= 1j*", Scalar(zp.delta2))),
                            !.w = <<Scalar(1)>>,
                            !.tunes = @ + 1]]
    ELSE IF freq_dist.ftype = LOG
    THEN [exc |-> "",
          zp |-> [zp EXCEPT !.alpha = @ \o <<Op("+= 1j*2*pi*", Scalar(1)), Op("*=", freq_dist.dist)>>,
                            !.beta1 = @ \o <<Op("+= 1j*", Scalar(zp.delta1)), Op("*=", freq_dist.dist)>>,
                            !.beta2 = @ \o <<Op("+= 1j*", Scalar(zp.delta2)), Op("*=", freq_dist.dist)>>,
                            !.w = <<freq_dist.dist>>,
                            !.tunes = @ + 1]]
    ELSE [exc |-> NotImplementedError, zp |-> [zp EXCEPT !.w = <<Scalar(1)>>]]

tune_to_freq(zp, freq_dist) ==
    IF freq_dist.ftype = LINEAR
    THEN [exc |-> "",
          zp |-> [zp EXCEPT !.alpha = Append(@, Op("+= 1j*2*pi*", freq_dist.dist)),
                            !.beta1 = Append(@, Op("+= 1j*", Scalar(zp.delta1))),
                            !.beta2 = Append(@, Op("+= 1j*", Scalar(zp.delta2))),
                            !.w = <<Scalar(1)>>,
                            !.tunes = @ + 1]]
    ELSE IF freq_dist.ftype = LOG
    THEN [exc |-> "",
          zp |-> [zp EXCEPT !.alpha = @ \o <<Op("+= 1j*2*pi*", Scalar(1)), Op("*=", freq_dist.dist)>>,
                            !.beta1 = @ \o <<Op("+= 1j*", Scalar(zp.delta1)), Op("*=", freq_dist.dist)>>,
                            !.beta2 = @ \o <<Op("+= 1j*", Scalar(zp.delta2)), Op("*=", freq_dist.dist)>>,
                            !.w = <<freq_dist.dist>>,
                            !.tunes = @ + 1]]
    ELSE [exc |-> NotImplementedError, zp |-> zp]

\* gfnn.py:55   the return of spont_amp, r being the surviving roots (r[ind] of
\* line 54, in the order of ind): ndarray.sort() sorts in place and returns
\* None, which cannot be subscripted; a single root (or none) comes back
\* wrapped in one more array.
spont_amp_return(r) ==
    IF Len(r) > 1
    THEN [exc |-> TypeError, value |-> <<>>]
    ELSE [exc |-> "", value |-> <<r>>]

\* gfnn.py:146,162   self.z = r[-1] + np.zeros(dim): the magnitudes the bank
\* is seeded with, by numpy's broadcasting of the last element of r.
seed_magnitude(r, dim) ==
    LET last == r[Len(r)] IN
    IF Len(last) = 1 THEN [exc |-> "", z |-> [i \in 1..dim |-> last[1]]]
    ELSE IF dim = 1 \/ Len(last) = dim THEN [exc |-> "", z |-> last]
    ELSE [exc |-> ValueError, z |-> <<>>]

\* rt_midi_gfnn.py:35-38   the frequency gradient shared by every bank of the
\* consumer; the source's 0.25 Hz .. 4 Hz is in quarter hertz, and the 250
\* oscillators are scaled down.
GRFNN_FROM_FREQ == 1
GRFNN_TO_FREQ == 16
GRFNN_DIM_IN == 4
F_DIST == FrequencyDist(GRFNN_FROM_FREQ, GRFNN_TO_FREQ, GRFNN_DIM_IN, LINEAR).fd

\* gfnn.py:134-147   GrFNN(freq_dist, zparams): set_state keeps the ZParams
\* object it is given and tunes it, then seeds a state that no input was
\* stepped through.  id names the instance, tuned is the number of times its
\* ZParams object has been tuned.
GrFNN(k, freq_dist, zparams) ==
    LET t == tune_to_freq(zparams, freq_dist) IN
    [id |-> k, zparams |-> t.zp, tuned |-> t.zp.tunes, dim |-> freq_dist.dim, z |-> <<>>]

\* rt_midi_gfnn.py:73-76   create_new_model: GrFNN(F_DIST, ZParams(), fs=FS),
\* a new bank on a new ZParams object.
\* Faulty variant of create_new_model: the current instance is reset and kept.
create_new_model_in_place(k) == GrFNN(k - 1, F_DIST, ZParams(0, 0))

\* Faulty variant of create_new_model: one ZParams object is shared by all the
\* banks, as F_DIST is, and tuned again by each of them.
RECURSIVE create_new_model_shared_zparams(_)
create_new_model_shared_zparams(k) ==
    GrFNN(k, F_DIST, IF k <= 1 THEN ZParams(0, 0)
                     ELSE create_new_model_shared_zparams(k - 1).zparams)

create_new_model(k) == GrFNN(k, F_DIST, ZParams(0, 0))

\* gfnn.py:167-172   GrFNN.forward: one integration step with input x.
forward(m, x) == [m EXCEPT !.z = Append(@, x)]

\* client.py:40-42   GrFNNClient.send_action
send_action(flag) == [kind |-> KEY_ACTION, payload |-> flag]

\* rt_midi_gfnn.py:166   order of argrelextrema (the source's 50 of 250
\* oscillators, scaled with GRFNN_DIM_IN)
PEAK_ORDER == 1

\* rt_midi_gfnn.py:166   scipy.signal.argrelextrema(data, np.greater, order)[0]
\* with its default mode 'clip': the 0-based indices whose value is greater than
\* the values up to order places away on both sides, places beyond an end being
\* read at that end.
argrelextrema(data, order) ==
    LET n == Len(data)
        clip(k) == IF k < 0 THEN 0 ELSE IF k > n - 1 THEN n - 1 ELSE k
    IN  {i \in 0..(n - 1) :
            \A shift \in 1..order :
                /\ data[i + 1] > data[clip(i + shift) + 1]
                /\ data[i + 1] > data[clip(i - shift) + 1]}

\* rt_midi_gfnn.py:158-165   what savgol_filter can return for abs(self._model.z):
\* it keeps the length of its input, the dim of the bank; the values depend on
\* the random seed of the bank, a flat and a peaked profile stand for them.
SmoothProfiles(m) ==
    {[i \in 1..m.dim |-> 1], [i \in 1..m.dim |-> IF i = 2 THEN 2 ELSE 1]}

\* client.py:44-49 with rt_midi_gfnn.py:158-169   the heartbeat is computed
\* from the state of self._model at the time of the call: z stands for the
\* normalised amplitudes, which are namps numbers, and the peaks are those of
\* the smoothed amplitudes z_smooth.
send_heartbeat(m, z_smooth) ==
    [kind |-> KEY_DATA, bank |-> m.id, z |-> m.z, namps |-> m.dim,
     peaks |-> argrelextrema(z_smooth, PEAK_ORDER)]

NoMsg == [id |-> 0, note |-> 0, velocity |-> 0, time |-> 0]
NoBatch == [bank |-> 0, z0 |-> <<>>, samples |-> <<>>, prev |-> None]
\* No object of gfnn.py is being exercised (the state of gf in the consumer's runs).
NoGf == [pc |-> "idle", op |-> "", arg |-> "", fd |-> NoFd, zp |-> ZParams(0, 0),
         exc |-> "", roots |-> <<>>, r |-> <<>>, z0 |-> <<>>]

\* ------------------------------------------------------------ the producer

\* What the MIDI port can hand to the callback: note messages (mido gives them
\* note and velocity) and a control change (which has neither attribute).
Notes == {48, 15, 46, 60}
Velocities == {0, 5}
DeviceMsgs ==
    [type : {"note_on"}, note : Notes, velocity : Velocities]
        \cup {[type |-> "note_off", note |-> 48, velocity |-> 5],
              [type |-> "control_change", control |-> 4, value |-> 64]}

\* rt_midi_gfnn.py:193,215   re.compile('note_on').match(msg.type): a match
\* anchored at the start of the type only.
good_msg_type(t) ==
    /\ Len(t) >= Len("note_on")
    /\ SubSeq(t, 1, Len("note_on")) = "note_on"

\* rt_midi_gfnn.py:215   the filter of the callback (evaluated left to right,
\* so note and velocity are read of note_on messages only).
\* Faulty variant of accepts: the velocity is not tested.
accepts_any_velocity(m) == good_msg_type(m.type) /\ m.note \in VALID_NOTES

accepts(m) == good_msg_type(m.type) /\ m.note \in VALID_NOTES /\ m.velocity > 0

\* rt_midi_gfnn.py:212-217 with 112-113   MidiProcessor._handle_message and
\* GrFNNMidiConsumer.receive, on the callback thread.  The port is closed once
\* stop() has returned (rt_midi_gfnn.py:235-238).
handle_message(m) ==
    /\ mainPc # "stopped"
    /\ nDelivered < MaxMsgs
    /\ nDelivered' = nDelivered + 1
    /\ IF accepts(m)
       THEN /\ queue' = Append(queue, [id |-> nAccepted + 1, note |-> m.note,
                                       velocity |-> m.velocity, time |-> now])
            /\ nAccepted' = nAccepted + 1
       ELSE UNCHANGED <<queue, nAccepted>>
    /\ UNCHANGED <<now, stopSignal, prevTime, rimshots, firstRim, model, nModels,
                   lock, pc, msg, ts, mainPc, sent, processed, batch, dequeuedAtStop, startTime, gf>>

Produce == \E m \in DeviceMsgs : handle_message(m)

\* The clock advances (it is read by nothing once the program has stopped).
Tick ==
    /\ mainPc # "stopped"
    /\ now < MaxTime
    /\ now' = now + 1
    /\ UNCHANGED <<queue, stopSignal, prevTime, rimshots, firstRim, model, nModels,
                   lock, pc, msg, ts, mainPc, sent, nDelivered, nAccepted,
                   processed, batch, dequeuedAtStop, startTime, gf>>

\* ---------------------------------------------------------- the main thread

\* rt_midi_gfnn.py:197-198   MidiProcessor.start: self._consumer.start()
Start ==
    /\ mainPc = "constructed"
    /\ mainPc' = "running"
    /\ pc' = "run"
    /\ UNCHANGED <<now, queue, stopSignal, prevTime, rimshots, firstRim, model,
                   nModels, lock, msg, ts, sent, nDelivered, nAccepted,
                   processed, batch, dequeuedAtStop, startTime, gf>>

\* rt_midi_gfnn.py:108-109   stop: self._stop_signal.set()
Stop ==
    /\ mainPc = "running"
    /\ stopSignal' = TRUE
    /\ mainPc' = "joining"
    /\ dequeuedAtStop' = nAccepted - Len(queue)
    /\ UNCHANGED <<now, queue, prevTime, rimshots, firstRim, model, nModels, lock,
                   pc, msg, ts, sent, nDelivered, nAccepted, processed, batch,
                   startTime, gf>>

\* rt_midi_gfnn.py:110   stop: self.join() returns once the thread has ended
\* (by leaving run or by an uncaught exception).
Join ==
    /\ mainPc = "joining"
    /\ pc \in {"done", "crashed"}
    /\ mainPc' = "stopped"
    /\ UNCHANGED <<now, queue, stopSignal, prevTime, rimshots, firstRim, model,
                   nModels, lock, pc, msg, ts, sent, nDelivered, nAccepted,
                   processed, batch, dequeuedAtStop, startTime, gf>>

\* ------------------------------------------------------ the consumer thread

\* rt_midi_gfnn.py:89   run: self._prev_time = time.time()
RunBegin ==
    /\ pc = "run"
    /\ prevTime' = now
    /\ startTime' = now
    /\ pc' = "loop"
    /\ UNCHANGED <<now, queue, stopSignal, rimshots, firstRim, model, nModels, lock,
                   msg, ts, mainPc, sent, nDelivered, nAccepted, processed, batch,
                   dequeuedAtStop, gf>>

\* rt_midi_gfnn.py:90   while not self._stop_signal.is_set()
\* Faulty variant of LoopCheck: the loop goes on until the queue is drained.
LoopCheckDrain ==
    /\ pc = "loop"
    /\ pc' = IF stopSignal /\ queue = <<>> THEN "done" ELSE "get"
    /\ UNCHANGED <<now, queue, stopSignal, prevTime, rimshots, firstRim, model,
                   nModels, lock, msg, ts, mainPc, sent, nDelivered, nAccepted,
                   processed, batch, dequeuedAtStop, startTime, gf>>

LoopCheck ==
    /\ pc = "loop"
    /\ pc' = IF stopSignal THEN "done" ELSE "get"
    /\ UNCHANGED <<now, queue, stopSignal, prevTime, rimshots, firstRim, model,
                   nModels, lock, msg, ts, mainPc, sent, nDelivered, nAccepted,
                   processed, batch, dequeuedAtStop, startTime, gf>>

\* rt_midi_gfnn.py:115-126   _process_rim_action, up to taking the lock; when no
\* model is to be replaced, the accumulator is cleared at once (lines 97-98).
\* Faulty variant of process_rim_action: the action is sent whatever it is.
process_rim_action_send_any ==
    LET action == rim_action(rimshots) IN
    /\ sent' = Append(sent, send_action(action))
    /\ IF action \in {RESET, NEW_GRFNN}
       THEN /\ lock = "none"
            /\ lock' = "consumer"
            /\ pc' = "replace"
            /\ UNCHANGED <<rimshots, firstRim>>
       ELSE /\ rimshots' = 0
            /\ firstRim' = None
            /\ pc' = "loop"
            /\ UNCHANGED lock

process_rim_action ==
    LET action == rim_action(rimshots) IN
    /\ sent' = IF action # NONE THEN Append(sent, send_action(action)) ELSE sent
    /\ IF action \in {RESET, NEW_GRFNN}
       THEN /\ lock = "none"
            /\ lock' = "consumer"
            /\ pc' = "replace"
            /\ UNCHANGED <<rimshots, firstRim>>
       ELSE /\ rimshots' = 0
            /\ firstRim' = None
            /\ pc' = "loop"
            /\ UNCHANGED lock

\* rt_midi_gfnn.py:95   the expiry test of the accumulator
window_expired == rimshots # 0 /\ now - firstRim > RIM_TRIGGER_WINDOW

\* rt_midi_gfnn.py:92-98   the queue is found empty: check the accumulator
QueueEmpty ==
    /\ pc = "get"
    /\ queue = <<>>
    /\ IF window_expired
       THEN process_rim_action
       ELSE /\ pc' = "loop"
            /\ UNCHANGED <<rimshots, firstRim, lock, sent>>
    /\ UNCHANGED <<now, queue, stopSignal, prevTime, model, nModels, msg, ts,
                   mainPc, nDelivered, nAccepted, processed, batch, dequeuedAtStop, startTime, gf>>

\* rt_midi_gfnn.py:124-126 and 97-98   the model is replaced under the lock,
\* then the accumulator is cleared.
\* Faulty variant of ReplaceModel: the accumulator is not cleared.
ReplaceModelKeepCount ==
    /\ pc = "replace"
    /\ model' = create_new_model(nModels + 1)
    /\ nModels' = nModels + 1
    /\ lock' = "none"
    /\ pc' = "loop"
    /\ UNCHANGED <<now, queue, stopSignal, prevTime, rimshots, firstRim, msg, ts,
                   mainPc, sent, nDelivered, nAccepted, processed, batch,
                   dequeuedAtStop, startTime, gf>>

ReplaceModel ==
    /\ pc = "replace"
    /\ model' = create_new_model(nModels + 1)
    /\ nModels' = nModels + 1
    /\ lock' = "none"
    /\ rimshots' = 0
    /\ firstRim' = None
    /\ pc' = "loop"
    /\ UNCHANGED <<now, queue, stopSignal, prevTime, msg, ts, mainPc, sent,
                   nDelivered, nAccepted, processed, batch, dequeuedAtStop, startTime, gf>>

\* rt_midi_gfnn.py:136-137   the pedal
\* Faulty variant of CapturePedal: the pedal also clears the accumulator.
CapturePedalAsRim ==
    /\ pc = "get"
    /\ queue # <<>>
    /\ Head(queue).note = PEDAL_NOTE
    /\ queue' = Tail(queue)
    /\ msg' = Head(queue)
    /\ sent' = Append(sent, send_action(NEW_TONES))
    /\ rimshots' = 0
    /\ firstRim' = None
    /\ processed' = Append(processed, Head(queue).id)
    /\ pc' = "loop"
    /\ UNCHANGED <<now, stopSignal, prevTime, model, nModels, lock, ts, mainPc,
                   nDelivered, nAccepted, batch, dequeuedAtStop, startTime, gf>>

CapturePedal ==
    /\ pc = "get"
    /\ queue # <<>>
    /\ Head(queue).note = PEDAL_NOTE
    /\ queue' = Tail(queue)
    /\ msg' = NoMsg
    /\ sent' = Append(sent, send_action(NEW_TONES))
    /\ processed' = Append(processed, Head(queue).id)
    /\ pc' = "loop"
    /\ UNCHANGED <<now, stopSignal, prevTime, rimshots, firstRim, model, nModels,
                   lock, ts, mainPc, nDelivered, nAccepted, batch, dequeuedAtStop, startTime, gf>>

\* rt_midi_gfnn.py:139-143   a rim shot
\* Faulty variant of CaptureRim: every rim shot restarts the window.
CaptureRimRestartWindow ==
    /\ pc = "get"
    /\ queue # <<>>
    /\ Head(queue).note # PEDAL_NOTE
    /\ Head(queue).note = TOM_RIM_NOTE
    /\ queue' = Tail(queue)
    /\ msg' = NoMsg
    /\ firstRim' = now
    /\ rimshots' = rimshots + 1
    /\ processed' = Append(processed, Head(queue).id)
    /\ pc' = "loop"
    /\ UNCHANGED <<now, stopSignal, prevTime, model, nModels, lock, ts, mainPc,
                   sent, nDelivered, nAccepted, batch, dequeuedAtStop, startTime, gf>>

CaptureRim ==
    /\ pc = "get"
    /\ queue # <<>>
    /\ Head(queue).note # PEDAL_NOTE
    /\ Head(queue).note = TOM_RIM_NOTE
    /\ queue' = Tail(queue)
    /\ msg' = NoMsg
    /\ firstRim' = IF ~Truthy(firstRim) THEN now ELSE firstRim
    /\ rimshots' = rimshots + 1
    /\ processed' = Append(processed, Head(queue).id)
    /\ pc' = "loop"
    /\ UNCHANGED <<now, stopSignal, prevTime, model, nModels, lock, ts, mainPc,
                   sent, nDelivered, nAccepted, batch, dequeuedAtStop, startTime, gf>>

\* rt_midi_gfnn.py:145-154   a tom: build the time series and take the lock.
\* np.zeros raises ValueError for a negative length and ts[-1] raises IndexError
\* for an empty array: the thread ends with the exception.
CaptureTom ==
    /\ pc = "get"
    /\ queue # <<>>
    /\ Head(queue).note \notin {PEDAL_NOTE, TOM_RIM_NOTE}
    /\ Head(queue).note \in TOM_NOTES
    /\ queue' = Tail(queue)
    /\ msg' = Head(queue)
    /\ LET elapsed == Head(queue).time - prevTime
           n == dts_since_last_note(elapsed)
       IN  IF n + 1 <= 0
           THEN /\ pc' = "crashed"
                /\ UNCHANGED <<ts, prevTime, lock, batch, dequeuedAtStop>>
           ELSE /\ ts' = time_series(n, Head(queue).velocity)
                /\ prevTime' = Head(queue).time
                /\ lock = "none"
                /\ lock' = "consumer"
                /\ batch' = [bank |-> model.id, z0 |-> model.z, samples |-> ts', prev |-> prevTime]
                /\ pc' = "inject"
    /\ UNCHANGED <<now, stopSignal, rimshots, firstRim, model, nModels, mainPc,
                   sent, nDelivered, nAccepted, processed, dequeuedAtStop, startTime, gf>>

\* rt_midi_gfnn.py:154-156   one sample of the series goes through the model;
\* the lock is released when the `with` block is left after the last sample.
\* Faulty variant of StepSample: the lock is taken and released around each sample.
StepSampleLockEach ==
    /\ pc = "inject"
    /\ model' = forward(model, Head(ts))
    /\ ts' = Tail(ts)
    /\ lock' = IF Len(ts) = 1 THEN "none" ELSE IF lock = "none" THEN "consumer" ELSE "none"
    /\ pc' = IF Len(ts) = 1 THEN "heartbeat" ELSE "inject"
    /\ UNCHANGED <<now, queue, stopSignal, prevTime, rimshots, firstRim, nModels,
                   msg, mainPc, sent, nDelivered, nAccepted, processed, batch, dequeuedAtStop, startTime, gf>>

StepSample ==
    /\ pc = "inject"
    /\ model' = forward(model, Head(ts))
    /\ ts' = Tail(ts)
    /\ lock' = IF Len(ts) = 1 THEN "none" ELSE lock
    /\ pc' = IF Len(ts) = 1 THEN "heartbeat" ELSE "inject"
    /\ UNCHANGED <<now, queue, stopSignal, prevTime, rimshots, firstRim, nModels,
                   msg, mainPc, sent, nDelivered, nAccepted, processed, batch, dequeuedAtStop, startTime, gf>>

\* rt_midi_gfnn.py:158-169   amplitudes and peaks of the model go downstream
\* Faulty variant of SendHeartbeat: the heartbeat is computed from the state the
\* model had before the samples of the event went through it.
SendHeartbeatStale ==
    /\ pc = "heartbeat"
    /\ \E z_smooth \in SmoothProfiles(model) :
          sent' = Append(sent, send_heartbeat([model EXCEPT !.z = batch.z0], z_smooth))
    /\ processed' = Append(processed, msg.id)
    /\ pc' = "loop"
    /\ msg' = NoMsg
    /\ batch' = NoBatch
    /\ UNCHANGED <<now, queue, stopSignal, prevTime, rimshots, firstRim, model,
                   nModels, lock, ts, mainPc, nDelivered, nAccepted,
                   dequeuedAtStop, startTime, gf>>

SendHeartbeat ==
    /\ pc = "heartbeat"
    /\ \E z_smooth \in SmoothProfiles(model) :
          sent' = Append(sent, send_heartbeat(model, z_smooth))
    /\ processed' = Append(processed, msg.id)
    /\ pc' = "loop"
    /\ msg' = NoMsg
    /\ batch' = NoBatch
    /\ UNCHANGED <<now, queue, stopSignal, prevTime, rimshots, firstRim, model,
                   nModels, lock, ts, mainPc, nDelivered, nAccepted,
                   dequeuedAtStop, startTime, gf>>

Consumer ==
    \/ RunBegin
    \/ LoopCheck
    \/ QueueEmpty
    \/ ReplaceModel
    \/ CapturePedal
    \/ CaptureRim
    \/ CaptureTom
    \/ StepSample
    \/ SendHeartbeat

\* ------------------------------------------------------- the specification


\* rt_midi_gfnn.py:54-71 and 191-195   the state once MidiProcessor is built:
\* the consumer exists (not started) and the callback is installed.
Init ==
    /\ now = 1
    /\ queue = <<>>
    /\ stopSignal = FALSE
    /\ prevTime = None
    /\ rimshots = 0
    /\ firstRim = None
    /\ model = create_new_model(1)
    /\ nModels = 1
    /\ lock = "none"
    /\ pc = "new"
    /\ msg = NoMsg
    /\ ts = <<>>
    /\ mainPc = "constructed"
    /\ sent = <<>>
    /\ nDelivered = 0
    /\ nAccepted = 0
    /\ processed = <<>>
    /\ batch = NoBatch
    /\ dequeuedAtStop = None
    /\ startTime = None
    /\ gf = NoGf

Next ==
    \/ Produce
    \/ Tick
    \/ Start
    \/ Stop
    \/ Join
    \/ Consumer

Spec == Init /\ [][Next]_vars

\* The main thread starts the consumer right after building it, and the consumer
\* is a running thread: it takes its next step whenever it has one.
FairSpec == Spec /\ WF_vars(Start) /\ WF_vars(Consumer)

\* ------------------------------------------------- the classifier on its own

\* GrFNNAction.rim_action applied to counts drawn from 0..MaxCount: the count
\* lives in rimshots, each result is emitted as an action.
ClassifyInit ==
    /\ rimshots \in 0..MaxCount
    /\ now = 1
    /\ queue = <<>>
    /\ stopSignal = FALSE
    /\ prevTime = None
    /\ firstRim = None
    /\ model = create_new_model(1)
    /\ nModels = 1
    /\ lock = "none"
    /\ pc = "new"
    /\ msg = NoMsg
    /\ ts = <<>>
    /\ mainPc = "constructed"
    /\ sent = <<>>
    /\ nDelivered = 0
    /\ nAccepted = 0
    /\ processed = <<>>
    /\ batch = NoBatch
    /\ dequeuedAtStop = None
    /\ startTime = None
    /\ gf = NoGf

Classify ==
    /\ Len(sent) < 2
    /\ sent' = Append(sent, send_action(rim_action(rimshots)))
    /\ rimshots' \in 0..MaxCount
    /\ UNCHANGED <<now, queue, stopSignal, prevTime, firstRim, model, nModels, lock,
                   pc, msg, ts, mainPc, nDelivered, nAccepted, processed, batch,
                   dequeuedAtStop, startTime, gf>>

ClassifySpec == ClassifyInit /\ [][Classify]_vars

\* ------------------------------------------------- gfnn.py on its own

\* Largest number of oscillators handed to FrequencyDist.
MaxDim == 4
\* Largest number of roots that survive the filters of spont_amp.
MaxRoots == 2

\* The inputs the functions of gfnn.py are exercised on.
Freqs == {1, 8, 10, 100}
PowersOfTen == {1, 10, 100}
FTypes == {LINEAR, LOG, "linear"}
Alphas == {0, -1}
Deltas == {0, 1}
\* Roots (in tenths), in any order, without repetition (np.unique, gfnn.py:40).
RootVals == {0, 5, 8}
RootSeqs ==
    {s \in UNION {[1..n -> RootVals] : n \in 0..MaxRoots} :
        \A i, j \in 1..Len(s) : i # j => s[i] # s[j]}

\* A ZParams object exists; nothing else has been called.
GfnnInit ==
    /\ gf \in {[NoGf EXCEPT !.pc = "start", !.zp = ZParams(a, d)] : a \in Alphas, d \in Deltas}
    /\ now = 1
    /\ queue = <<>>
    /\ stopSignal = FALSE
    /\ prevTime = None
    /\ rimshots = 0
    /\ firstRim = None
    /\ model = create_new_model(1)
    /\ nModels = 1
    /\ lock = "none"
    /\ pc = "new"
    /\ msg = NoMsg
    /\ ts = <<>>
    /\ mainPc = "constructed"
    /\ sent = <<>>
    /\ nDelivered = 0
    /\ nAccepted = 0
    /\ processed = <<>>
    /\ batch = NoBatch
    /\ dequeuedAtStop = None
    /\ startTime = None

\* gfnn.py:62-81   a FrequencyDist is constructed.
NewFrequencyDist ==
    /\ gf.pc = "start"
    /\ \E minf \in Freqs, maxf \in Freqs, dim \in 1..MaxDim, t \in FTypes :
          /\ minf < maxf
          /\ t = LOG => {minf, maxf} \subseteq PowersOfTen
          /\ LET res == FrequencyDist(minf, maxf, dim, t) IN
             gf' = [gf EXCEPT !.op = "FrequencyDist", !.arg = t,
                              !.fd = res.fd, !.exc = res.exc,
                              !.pc = IF res.exc = "" THEN "fd" ELSE "raised"]
    /\ UNCHANGED <<now, queue, stopSignal, prevTime, rimshots, firstRim, model, nModels,
                   lock, pc, msg, ts, mainPc, sent, nDelivered, nAccepted, processed,
                   batch, dequeuedAtStop, startTime>>

\* gfnn.py:102-118   the ZParams object is tuned to the FrequencyDist, whose
\* ftype attribute is the one it was built with or has been set to something else.
TuneToFreq ==
    /\ gf.pc = "fd"
    /\ \E t \in {gf.fd.ftype} \cup (FTypes \ {LINEAR, LOG}) :
          LET res == tune_to_freq(gf.zp, [gf.fd EXCEPT !.ftype = t]) IN
          gf' = [gf EXCEPT !.op = "tune_to_freq", !.arg = t,
                           !.zp = res.zp, !.exc = res.exc,
                           !.pc = IF res.exc = "" THEN "tuned" ELSE "raised"]
    /\ UNCHANGED <<now, queue, stopSignal, prevTime, rimshots, firstRim, model, nModels,
                   lock, pc, msg, ts, mainPc, sent, nDelivered, nAccepted, processed,
                   batch, dequeuedAtStop, startTime>>

\* gfnn.py:149-162   set_random_spont_amp: spont_amp is called and the state is
\* seeded with the last element of what it returns.  The roots that survive
\* the filters of spont_amp (gfnn.py:38-54) are drawn from RootSeqs.
SetRandomSpontAmp ==
    /\ gf.pc = "tuned"
    /\ \E roots \in RootSeqs :
          LET res == spont_amp_return(roots)
              seed == IF res.exc = "" THEN seed_magnitude(res.value, gf.fd.dim)
                      ELSE [exc |-> res.exc, z |-> <<>>]
          IN  gf' = [gf EXCEPT !.op = "set_random_spont_amp", !.roots = roots,
                               !.r = res.value, !.z0 = seed.z, !.exc = seed.exc,
                               !.pc = IF seed.exc = "" THEN "seeded" ELSE "raised"]
    /\ UNCHANGED <<now, queue, stopSignal, prevTime, rimshots, firstRim, model, nModels,
                   lock, pc, msg, ts, mainPc, sent, nDelivered, nAccepted, processed,
                   batch, dequeuedAtStop, startTime>>

GfnnNext ==
    \/ NewFrequencyDist
    \/ TuneToFreq
    \/ SetRandomSpontAmp

GfnnSpec == GfnnInit /\ [][GfnnNext]_vars

\* ------------------------------------------- the accumulator on its own

\* The running consumer after r rim shots were delivered and counted at clock
\* 1 (r up to MaxCount), with a pedal message possibly waiting in the queue.
ExpiryInit ==
    \E r \in 0..MaxCount, p \in 0..1 :
        /\ rimshots = r
        /\ firstRim = IF r = 0 THEN None ELSE 1
        /\ processed = [i \in 1..r |-> i]
        /\ queue = [i \in 1..p |-> [id |-> r + i, note |-> PEDAL_NOTE, velocity |-> 5, time |-> 1]]
        /\ nDelivered = r + p
        /\ nAccepted = r + p
        /\ now = 1
        /\ prevTime = 1
        /\ startTime = 1
        /\ stopSignal = FALSE
        /\ model = create_new_model(1)
        /\ nModels = 1
        /\ lock = "none"
        /\ pc = "loop"
        /\ msg = NoMsg
        /\ ts = <<>>
        /\ mainPc = "running"
        /\ sent = <<>>
        /\ batch = NoBatch
        /\ dequeuedAtStop = None
        /\ gf = NoGf

\* The consumer polls on while the clock advances and the device is silent.
ExpiryNext ==
    \/ Tick
    \/ LoopCheck
    \/ QueueEmpty
    \/ ReplaceModel
    \/ CapturePedal

ExpirySpec == ExpiryInit /\ [][ExpiryNext]_vars

\* ================================================================ the claims

\* The consumer step taken when the queue is found empty (the expiry check).
IsExpiryCheck == pc = "get" /\ queue = <<>> /\ pc' # pc
\* The consumer step that dequeues and handles the message at the head of the queue.
IsCapture == pc = "get" /\ queue # <<>> /\ pc' # pc
\* The messages dequeued so far.
Dequeued == nAccepted - Len(queue)
\* n zeros.
Zeros(n) == [i \in 1..n |-> 0]

\* C1: rim_action is a total mapping of the count: 1 -> LOCK, 2 -> NEW_GRFNN,
\* 3 -> RESET and every other count (0, 4, 5, ...) -> NONE.  Checked under
\* ClassifySpec: whatever the count, the action emitted for it is the one the
\* table gives.
C1_RimActionMapping ==
    [][LET expected == CASE rimshots = 1 -> "LOCK"
                         [] rimshots = 2 -> "NEW_GRFNN"
                         [] rimshots = 3 -> "RESET"
                         [] OTHER -> ""
       IN  sent' = Append(sent, [kind |-> "GrFNN_Action", payload |-> expected])]_vars

\* C1 witness: two counts outside 1..3 have been classified, both to NONE.
C1_Witness ==
    /\ Len(sent) = 2
    /\ sent[1].payload = ""
    /\ sent[2].payload = ""
    /\ rimshots = 3

\* C2: once 2 rim shots are accumulated and the window has expired, the expiry
\* check emits exactly one NEW_GRFNN action and the accumulator is cleared (at
\* the end of the replacement of the model, which emits nothing); an expiry
\* check on an empty accumulator emits nothing and leaves it empty; and the
\* accumulator leaves the empty state only by a rim shot being processed.
C2_WindowExpiryIdempotence ==
    [][/\ (IsExpiryCheck /\ rimshots = 2 /\ now - firstRim > RIM_TRIGGER_WINDOW)
            => /\ sent' = Append(sent, [kind |-> "GrFNN_Action", payload |-> "NEW_GRFNN"])
               /\ pc' = "replace"
       /\ (pc = "replace" /\ pc' # pc)
            => /\ sent' = sent
               /\ rimshots' = 0
               /\ firstRim' = None
               /\ pc' = "loop"
       /\ (IsExpiryCheck /\ rimshots = 0)
            => /\ sent' = sent
               /\ rimshots' = 0
               /\ firstRim' = None
       /\ (rimshots = 0 /\ rimshots' # 0)
            => /\ IsCapture
               /\ Head(queue).note = TOM_RIM_NOTE]_vars

\* C2 witness: the window of 2 rim shots has expired, NEW_GRFNN (the only
\* action sent) was emitted, the accumulator is empty and a further expiry
\* check is due.
C2_Witness ==
    /\ sent = <<[kind |-> "GrFNN_Action", payload |-> "NEW_GRFNN"]>>
    /\ Len(processed) = 2
    /\ rimshots = 0
    /\ firstRim = None
    /\ nModels = 2
    /\ pc = "get"
    /\ queue = <<>>

C5_LockCoversBatch ==
    /\ [](/\ pc = "inject" => (lock = "consumer" /\ model.id = batch.bank)
          /\ pc = "replace" => lock = "consumer"
          /\ pc = "heartbeat" => (model.id = batch.bank
                                    /\ model.z = batch.z0 \o batch.samples))
    /\ [][/\ model' # model => lock = "consumer"
          /\ (pc = "inject" /\ pc' = "inject") => lock' = "consumer"
          /\ (pc = "inject") => model'.id = model.id]_vars

\* C5 witness: the consumer is between two samples of a TONE event (one stepped,
\* one to go) while the producer has enqueued another message.
C5_Witness ==
    /\ pc = "inject"
    /\ Len(model.z) > Len(batch.z0)
    /\ ts # <<>>
    /\ queue # <<>>
    /\ lock = "consumer"

\* C6: once the stop signal is set the consumer dequeues at most one more
\* message (the iteration it was in) and leaves the loop at its next test of
\* the signal; stop() returns only when the consumer thread has ended; and an
\* ended consumer dequeues, processes and emits nothing, whatever is queued.
C6_Cancellation ==
    /\ [](/\ stopSignal => Dequeued - dequeuedAtStop <= 1
          /\ mainPc = "stopped" => (stopSignal /\ pc \in {"done", "crashed"}))
    /\ [][/\ stopSignal => stopSignal'
          /\ (stopSignal /\ pc = "loop" /\ pc' # pc) => pc' = "done"
          /\ pc \in {"done", "crashed"}
                => /\ pc' = pc
                   /\ sent' = sent
                   /\ processed' = processed
                   /\ Dequeued' = Dequeued]_vars

\* C6 witness: stop() has returned, the consumer has left its loop after
\* finishing the iteration that was under way when the signal was set (one
\* message dequeued after it), and a message is still queued.
C6_Witness ==
    /\ mainPc = "stopped"
    /\ pc = "done"
    /\ Dequeued - dequeuedAtStop = 1
    /\ queue # <<>>

\* C7: every message the callback enqueues is processed exactly once: the
\* messages are processed in the order of their enqueueing, none twice, and
\* each is eventually processed unless the stop signal is given.
C7_ConsumedExactlyOnce ==
    /\ [](processed = [i \in 1..Len(processed) |-> i])
    /\ \A i \in 1..MaxMsgs :
          (nAccepted >= i) ~> (stopSignal \/ \E k \in DOMAIN processed : processed[k] = i)

\* C8: a rim shot processed on an empty accumulator sets the window start to
\* the timestamp the callback gave the message, and the count to 1; processed on
\* a non-empty accumulator it leaves the window start and adds 1 to the count.
C8_WindowStartIsEventTimestamp ==
    [][(IsCapture /\ Head(queue).note = TOM_RIM_NOTE)
          => IF rimshots = 0
             THEN firstRim' = Head(queue).time /\ rimshots' = 1
             ELSE firstRim' = firstRim /\ rimshots' = rimshots + 1]_vars

\* C9: processing a pedal message emits exactly one NEW_TONES action and
\* leaves the accumulator, the model and the last onset time as they were.
C9_ModeChangeFrame ==
    [][(IsCapture /\ Head(queue).note = PEDAL_NOTE)
          => /\ sent' = Append(sent, [kind |-> "GrFNN_Action", payload |-> "NEW_TONES"])
             /\ UNCHANGED <<rimshots, firstRim, model, nModels, prevTime>>]_vars

\* C9 witness: a pedal message was processed while one rim shot was
\* accumulated: NEW_TONES is the last thing sent, the count is still 1.
C9_Witness ==
    /\ pc = "loop"
    /\ Len(processed) = 2
    /\ sent # <<>>
    /\ sent[Len(sent)] = [kind |-> "GrFNN_Action", payload |-> "NEW_TONES"]
    /\ rimshots = 1
    /\ Truthy(firstRim)

\* C10: the callback enqueues a device message exactly when it is a note_on
\* with velocity > 0 and a note of {48, 47, 15, 46}: then the message is
\* appended once, stamped with the time of arrival; any other message leaves the
\* queue as it is.  Nothing else adds to the queue.
C10_IngestionFilter ==
    /\ [](\A i \in DOMAIN queue :
              /\ queue[i].note \in {48, 47, 15, 46}
              /\ queue[i].velocity > 0
              /\ queue[i].time <= now)
    /\ [][/\ nDelivered' # nDelivered =>
                \A m \in DeviceMsgs :
                    handle_message(m) =>
                        IF m.type = "note_on" /\ m.velocity > 0 /\ m.note \in {48, 47, 15, 46}
                        THEN /\ Len(queue') = Len(queue) + 1
                             /\ SubSeq(queue', 1, Len(queue)) = queue
                             /\ queue'[Len(queue')].note = m.note
                             /\ queue'[Len(queue')].velocity = m.velocity
                             /\ queue'[Len(queue')].time = now
                        ELSE queue' = queue
          /\ Len(queue') > Len(queue) => nDelivered' = nDelivered + 1]_vars

\* C10 witness: of two delivered messages one was dropped and one is queued.
C10_Witness ==
    /\ nDelivered = 2
    /\ nAccepted = 1
    /\ Len(queue) = 1
    /\ queue[1].time = now

\* The values of a LINEAR FrequencyDist fd run from min_freq to max_freq in
\* equal, positive steps (num[i]/den is compared through the numerators).
RunsMinToMax(fd) ==
    LET v == fd.dist.num
        d == fd.dist.den
    IN  /\ v[1] = fd.min_freq * d
        /\ v[fd.dim] = fd.max_freq * d
        /\ \A i \in 1..(fd.dim - 1) : v[i] < v[i + 1]
        /\ \A i, j \in 1..(fd.dim - 1) : v[i + 1] - v[i] = v[j + 1] - v[j]

\* C11: for every LINEAR FrequencyDist built from min_freq < max_freq and every
\* positive dim, dim = 1 included, dist has dim values, the first is min_freq,
\* the last is max_freq, and the values increase strictly in equal steps.
C11_LinearGradient ==
    (gf.fd # NoFd /\ gf.fd.ftype = LINEAR) =>
        /\ Len(gf.fd.dist.num) = gf.fd.dim
        /\ ~gf.fd.dist.exp10
        /\ RunsMinToMax(gf.fd)

\* C11 as amended: the same for every dim >= 2; for dim = 1 the single value is
\* min_freq (so the last value is not max_freq).
C11_LinearGradientFromTwo ==
    (gf.fd # NoFd /\ gf.fd.ftype = LINEAR) =>
        /\ Len(gf.fd.dist.num) = gf.fd.dim
        /\ ~gf.fd.dist.exp10
        /\ gf.fd.dim >= 2 => RunsMinToMax(gf.fd)
        /\ gf.fd.dim = 1 => (gf.fd.dist.num = <<gf.fd.min_freq>> /\ gf.fd.dist.den = 1)

\* C11 witness: dim = 4 from 1 to 8 gives 1, 10/3, 17/3, 8 (steps of 7/3).
C11_Witness ==
    /\ gf.op = "FrequencyDist"
    /\ gf.fd.ftype = LINEAR
    /\ gf.fd.dim = 4
    /\ gf.fd.dist = Vec(<<3, 10, 17, 24>>, 3, FALSE)

\* C12: a frequency type that is neither LINEAR nor LOG is refused with
\* NotImplementedError both by the construction of a FrequencyDist and by
\* tune_to_freq; the refused construction produces no values, and the refused
\* tuning leaves alpha, beta1, beta2 and w as they were before the call.
C12_UnhandledFrequencyType ==
    [][/\ (gf.pc = "start" /\ gf' # gf /\ gf'.arg \notin {LINEAR, LOG}) =>
              /\ gf'.op = "FrequencyDist"
              /\ gf'.exc = NotImplementedError
              /\ gf'.fd.dist.num = <<>>
       /\ (gf.pc = "fd" /\ gf' # gf /\ gf'.arg \notin {LINEAR, LOG}) =>
              /\ gf'.op = "tune_to_freq"
              /\ gf'.exc = NotImplementedError
              /\ gf'.zp.alpha = gf.zp.alpha
              /\ gf'.zp.beta1 = gf.zp.beta1
              /\ gf'.zp.beta2 = gf.zp.beta2
              /\ gf'.zp.w = gf.zp.w]_vars

\* C12 witness: tuning the parameters alpha = -1, delta1 = 1 to a gradient whose
\* type is the plain string "linear" was refused, and they are as constructed.
C12_Witness ==
    /\ gf.op = "tune_to_freq"
    /\ gf.arg = "linear"
    /\ gf.exc = NotImplementedError
    /\ gf.fd.dist.num # <<>>
    /\ gf.zp = ZParams(-1, 1)

\* C13: processing a tom never fails, whenever the callback stamped it (before
\* run() initialised _prev_time included): the time series is built with at least
\* the impulse sample, the injection starts, and the consumer goes on running.
C13_ToneProcessingNeverFails ==
    [][(IsCapture /\ Head(queue).note \in TOM_NOTES)
          => /\ pc' = "inject"
             /\ Len(ts') >= 1
             /\ ts'[Len(ts')] = Head(queue).velocity * MIDI_VEL_SCALE]_vars

\* C14: a rim shot that is counted into a window already open was stamped by
\* the callback (and hence processed) no later than RIM_TRIGGER_WINDOW after the
\* start of that window, so that rim shots further apart than the window never
\* go into the same action, whatever the queue holds between them.
C14_AggregatedWithinWindow ==
    [][(IsCapture /\ Head(queue).note = TOM_RIM_NOTE /\ rimshots > 0 /\ rimshots' = rimshots + 1)
          => Head(queue).time - firstRim <= RIM_TRIGGER_WINDOW]_vars

\* C15: every action sent carries one of the payloads RESET, NEW_GRFNN, LOCK,
\* NEW_TONES (all within the set that also holds the empty payload, which is
\* never sent); when the window expires on a count of 4 or more, which
\* classifies to NONE, nothing is sent and the accumulator is cleared all the same.
C15_NoActionForNone ==
    /\ [](\A i \in DOMAIN sent :
              sent[i].kind = "GrFNN_Action" =>
                  /\ sent[i].payload \in {"", "RESET", "NEW_GRFNN", "LOCK", "NEW_TONES"}
                  /\ sent[i].payload # "")
    /\ [][(IsExpiryCheck /\ rimshots >= 4 /\ now - firstRim > RIM_TRIGGER_WINDOW)
             => /\ sent' = sent
                /\ rimshots' = 0
                /\ firstRim' = None]_vars

\* C15 witness: four rim shots were counted, their window has expired, nothing
\* was sent and the accumulator is empty again.
C15_Witness ==
    /\ Len(processed) = 4
    /\ nAccepted = 4
    /\ queue = <<>>
    /\ sent = <<>>
    /\ rimshots = 0
    /\ firstRim = None
    /\ now > 1 + RIM_TRIGGER_WINDOW

\* The step appends one heartbeat to what has been sent.
HeartbeatSent ==
    /\ Len(sent') = Len(sent) + 1
    /\ SubSeq(sent', 1, Len(sent)) = sent
    /\ sent'[Len(sent')].kind = "GrFNN_Data"

\* C16: one heartbeat is sent for each tom processed, once all the samples of
\* the tom are through the model, and it is computed from the state of the model
\* that received them; its amplitudes are dim numbers and its peaks are indices
\* into them; processing a rim shot or the pedal, an expired window and the
\* replacement of the model send no heartbeat.
C16_OneHeartbeatPerTone ==
    [][/\ sent' # sent => (Len(sent') = Len(sent) + 1 /\ SubSeq(sent', 1, Len(sent)) = sent)
       /\ (pc = "heartbeat" /\ pc' # pc) => (HeartbeatSent /\ processed' = Append(processed, msg.id))
       /\ HeartbeatSent =>
             /\ pc = "heartbeat"
             /\ msg.note \in TOM_NOTES
             /\ ts = <<>>
             /\ model.id = batch.bank
             /\ model.z = batch.z0 \o batch.samples
             /\ sent'[Len(sent')].bank = model.id
             /\ sent'[Len(sent')].z = model.z
             /\ sent'[Len(sent')].namps = model.dim
             /\ sent'[Len(sent')].peaks \subseteq 0..(sent'[Len(sent')].namps - 1)
       /\ (pc' = "heartbeat" /\ pc # "heartbeat") => (pc = "inject" /\ ts' = <<>>)]_vars

\* C16 witness: a rim shot, the pedal and a tom have been processed; the one
\* heartbeat sent is that of the tom, with a peak at index 1 of its 4 amplitudes.
C16_Witness ==
    /\ Len(processed) = 3
    /\ Cardinality({i \in DOMAIN sent : sent[i].kind = "GrFNN_Data"}) = 1
    /\ sent[Len(sent)].kind = "GrFNN_Data"
    /\ sent[Len(sent)].z = model.z
    /\ Len(model.z) >= 2
    /\ sent[Len(sent)].namps = 4
    /\ sent[Len(sent)].peaks = {1}
    /\ rimshots = 1

\* C17: tune_to_freq runs once for each bank constructed: the bank built at
\* start-up and every bank that replaces one is built on a ZParams object that
\* has not been tuned before, so that no ZParams object is ever tuned twice
\* (alpha, beta1 and beta2 carry the one operation of that tuning).
C17_TunedOncePerBank ==
    /\ [](/\ model.zparams.tunes = 1
          /\ model.tuned = 1
          /\ Len(model.zparams.alpha) = 2
          /\ Len(model.zparams.beta1) = 2
          /\ Len(model.zparams.beta2) = 2)
    /\ [][model'.id # model.id =>
             /\ pc = "replace"
             /\ model'.zparams = tune_to_freq(ZParams(0, 0), F_DIST).zp]_vars

\* C17 witness: the bank of start-up has been replaced, and the ZParams object
\* of the second bank has been tuned once.
C17_Witness ==
    /\ nModels = 2
    /\ model.id = 2
    /\ model.zparams.tunes = 1
    /\ model.zparams.alpha = <<Op("=", Scalar(0)), Op("+= 1j*2*pi*", F_DIST.dist)>>
    /\ pc = "loop"

\* The largest element of a non-empty set of numbers.
Largest(S) == CHOOSE x \in S : \A y \in S : y <= x
\* The elements of a set of numbers, in descending order.
RECURSIVE Descending(_)
Descending(S) == IF S = {} THEN <<>> ELSE <<Largest(S)>> \o Descending(S \ {Largest(S)})
\* The elements of a sequence.
Range(s) == {s[i] : i \in DOMAIN s}

\* C18: for one or more surviving roots, two or more in particular, spont_amp
\* returns them in descending order (wrapped in one more array, as the source
\* wraps a single root), and the bank is seeded with the largest of them as the
\* magnitude of every oscillator.
C18_SeededWithLargestRoot ==
    (gf.op = "set_random_spont_amp" /\ Len(gf.roots) >= 1) =>
        /\ gf.exc = ""
        /\ gf.r = <<Descending(Range(gf.roots))>>
        /\ gf.z0 = [i \in 1..gf.fd.dim |-> Largest(Range(gf.roots))]

\* C19: between the steps of the consumer the rim-shot count is a natural
\* number, and it is 0 exactly when no window start is recorded; a recorded
\* window start changes only by being cleared, together with the count, when the
\* window expires.
C19_AccumulatorInvariant ==
    /\ [](/\ rimshots \in Nat
          /\ rimshots = 0 <=> firstRim = None)
    /\ [][(firstRim # None /\ firstRim' # firstRim) =>
             /\ firstRim' = None
             /\ rimshots' = 0
             /\ now - firstRim > RIM_TRIGGER_WINDOW
             /\ IsExpiryCheck \/ pc = "replace"]_vars

\* C19 witness: two rim shots are counted in a window that started at clock 1
\* and is still open two ticks later.
C19_Witness ==
    /\ rimshots = 2
    /\ firstRim = 1
    /\ now = 3
    /\ Len(processed) = 2
    /\ pc = "get"

\* The heartbeats sent so far (one for each tom processed).
Heartbeats == {i \in DOMAIN sent : sent[i].kind = "GrFNN_Data"}
\* The largest of a set of naturals, 0 for the empty set.
MaxOf(S) == IF S = {} THEN 0 ELSE CHOOSE x \in S : \A y \in S : y <= x
\* The samples stepped through bank b up to its last heartbeat.
StepsOfBank(b) == MaxOf({Len(sent[i].z) : i \in {j \in Heartbeats : sent[j].bank = b}})
\* The samples stepped through all the banks up to the last heartbeat.
RECURSIVE StepsUpTo(_)
StepsUpTo(b) == IF b = 0 THEN 0 ELSE StepsOfBank(b) + StepsUpTo(b - 1)
TotalSteps == StepsUpTo(nModels)

\* C20: once n >= 1 toms have been processed, the last stamped tn, the number
\* N of samples stepped in all satisfies (tn - t0)/DT < N <= (tn - t0)/DT + n,
\* t0 being the _prev_time of start-up: each tom steps floor(elapsed/DT) + 1
\* samples, so the sample clock runs ahead of the time elapsed by at most one
\* sample for each tom and never falls behind.
C20_SampleClockBound ==
    /\ (pc \notin {"inject", "heartbeat"} /\ Heartbeats # {}) =>
          /\ startTime <= prevTime
          /\ prevTime - startTime < TotalSteps * DT
          /\ (TotalSteps - Cardinality(Heartbeats)) * DT <= prevTime - startTime
    /\ pc = "heartbeat" =>
          Len(batch.samples) = ((prevTime - batch.prev) \div DT) + 1

\* C20 witness: two toms stamped one tick apart from start-up on have been
\* processed: 2 samples stepped for 2 ticks of a 2-tick period, one sample ahead.
C20_Witness ==
    /\ pc = "loop"
    /\ Cardinality(Heartbeats) = 2
    /\ prevTime - startTime = 2
    /\ TotalSteps = 2

=============================================================================
